---- MODULE Spec2Model ----
(***************************************************************************)
(* Model of imgbot.py: the per-post download pipeline route_posts with the *)
(* resolver get_post_image_url / get_direct_image_url, the filter          *)
(* ignore_post and the persist functions save_image / extract_album.       *)
(* Strings are sequences of one-character strings, so that lower(),        *)
(* endswith(), startswith(), the "in" substring test and urlparse are      *)
(* computed as Python computes them.                                       *)
(***************************************************************************)
EXTENDS Naturals, Sequences, FiniteSets

(* ---- bounds ---- *)
\* largest number of posts the listing yields (lim of get_subreddit_posts)
MaxPosts == 2
\* largest number of candidate elements in a fetched page
MaxElems == 2

(* ---- character data ---- *)
Upper == <<"A", "B", "C", "D", "E", "F", "G", "H", "I", "J", "K", "L", "M", "N", "O", "P", "Q", "R", "S", "T", "U", "V", "W", "X", "Y", "Z">>
LowerAlpha == <<"a", "b", "c", "d", "e", "f", "g", "h", "i", "j", "k", "l", "m", "n", "o", "p", "q", "r", "s", "t", "u", "v", "w", "x", "y", "z">>
Digits == <<"0", "1", "2", "3", "4", "5", "6", "7", "8", "9">>

HTTP == <<"h", "t", "t", "p", ":", "/", "/">>
HTTPS == <<"h", "t", "t", "p", "s", ":", "/", "/">>
ALBUM_MARK == <<"/", "a", "/">>
ZIP == <<"/", "z", "i", "p">>
PNG == <<".", "p", "n", "g">>
GIF == <<".", "g", "i", "f">>
GIFV == <<".", "g", "i", "f", "v">>
JPG == <<".", "j", "p", "g">>
JPEG == <<".", "j", "p", "e", "g">>

\* IMAGE_FORMATS = ('.png', '.gif', '.gifv', '.jpg', '.jpeg')
IMAGE_FORMATS == {PNG, GIF, GIFV, JPG, JPEG}

\* the value None, and the value of a per-post variable not yet assigned
None == <<"None">>
Unset == <<>>

(* ---- str methods ---- *)
\* one character of str.lower()
LowerChar(c) ==
    IF \E k \in 1..Len(Upper) : Upper[k] = c
    THEN LowerAlpha[CHOOSE k \in 1..Len(Upper) : Upper[k] = c]
    ELSE c

\* str.lower()
Lower(s) == [k \in 1..Len(s) |-> LowerChar(s[k])]

\* str.startswith(p)
StartsWith(s, p) == Len(p) <= Len(s) /\ SubSeq(s, 1, Len(p)) = p

\* str.endswith(x)
EndsWith(s, x) == Len(x) <= Len(s) /\ SubSeq(s, Len(s) - Len(x) + 1, Len(s)) = x

\* x in s
Contains(s, x) == \E k \in 1..Len(s) : k + Len(x) - 1 <= Len(s) /\ SubSeq(s, k, k + Len(x) - 1) = x

\* index of the first position >= from whose character is in cs, 0 if none
FindFirst(s, cs, from) ==
    IF \E k \in from..Len(s) : s[k] \in cs
    THEN CHOOSE k \in from..Len(s) : s[k] \in cs /\ \A j \in from..(k - 1) : s[j] \notin cs
    ELSE 0

\* os.path.basename(url): what follows the last "/"
basename(s) ==
    IF \E k \in 1..Len(s) : s[k] = "/"
    THEN SubSeq(s, (CHOOSE k \in 1..Len(s) : s[k] = "/" /\ \A j \in (k + 1)..Len(s) : s[j] # "/") + 1, Len(s))
    ELSE s

\* characters urlsplit accepts in a scheme
SchemeChars == {Upper[k] : k \in 1..Len(Upper)} \cup {LowerAlpha[k] : k \in 1..Len(LowerAlpha)}
               \cup {Digits[k] : k \in 1..Len(Digits)} \cup {"+", "-", "."}

Letters == {Upper[k] : k \in 1..Len(Upper)} \cup {LowerAlpha[k] : k \in 1..Len(LowerAlpha)}

\* urlsplit: what is left of the url once a leading "scheme:" is removed
AfterScheme(s) ==
    LET i == FindFirst(s, {":"}, 1)
    IN  IF i > 1 /\ s[1] \in Letters /\ \A j \in 1..(i - 1) : s[j] \in SchemeChars
        THEN SubSeq(s, i + 1, Len(s))
        ELSE s

\* urlparse(url).netloc: present only when the rest starts with "//"
netloc(s) ==
    LET rest == AfterScheme(s)
        d == FindFirst(rest, {"/", "?", "#"}, 3)
    IN  IF StartsWith(rest, <<"/", "/">>)
        THEN SubSeq(rest, 3, IF d = 0 THEN Len(rest) ELSE d - 1)
        ELSE <<>>

(* ---- selector table ---- *)
K_default == <<"d", "e", "f", "a", "u", "l", "t">>
K_imgur == <<"i", "m", "g", "u", "r", ".", "c", "o", "m">>
K_tinypic == <<"t", "i", "n", "y", "p", "i", "c", ".", "c", "o", "m">>
K_gfycat == <<"g", "f", "y", "c", "a", "t", ".", "c", "o", "m">>
K_pics == <<"p", "i", "c", "s", ".", "i", "o">>

\* the built-in IMAGE_SELECTORS
BuiltinSelectors ==
    [k \in {K_default, K_imgur, K_tinypic, K_gfycat} |->
        IF k = K_default THEN [name |-> "meta", property |-> "og:image", link |-> "content"]
        ELSE IF k = K_imgur THEN [name |-> "link", rel |-> "image_src", link |-> "href"]
        ELSE IF k = K_tinypic THEN [name |-> "a", class |-> "thickbox", link |-> "href"]
        ELSE [name |-> "meta", property |-> "og:url", link |-> "content"]]

\* contents selectors.json can have: a rule for a new domain without "link",
\* a rule for a new domain with "link", an override of a built-in domain
FileNoLink == [k \in {K_pics} |-> [name |-> "meta", property |-> "og:image"]]
FileNewDomain == [k \in {K_pics} |-> [name |-> "link", rel |-> "image_src", link |-> "href"]]
FileOverride == [k \in {K_imgur} |-> [name |-> "meta", property |-> "og:image", link |-> "content"]]

\* state of selectors.json at import: no file, undecodable, or a decoded object
SelectorFiles == {[kind |-> "absent"], [kind |-> "malformed"],
                  [kind |-> "json", selectors |-> FileNoLink],
                  [kind |-> "json", selectors |-> FileNewDomain],
                  [kind |-> "json", selectors |-> FileOverride]}

\* {**a, **b}
Merge(a, b) == [k \in (DOMAIN a) \cup (DOMAIN b) |-> IF k \in DOMAIN b THEN b[k] ELSE a[k]]

\* module import: IMAGE_SELECTORS after the optional merge of selectors.json
LoadSelectors(file) ==
    IF file.kind = "json" THEN Merge(BuiltinSelectors, file.selectors) ELSE BuiltinSelectors

\* dict.get(domain, default)
DictGet(table, key, default) == IF key \in DOMAIN table THEN table[key] ELSE default

(* ---- the world: post urls, pages ---- *)
U_jpg == <<"h", "t", "t", "p", ":", "/", "/", "x", ".", "c", "o", "/", "p", ".", "j", "p", "g">>
U_GIF == <<"h", "t", "t", "p", ":", "/", "/", "x", ".", "c", "o", "/", "p", ".", "G", "I", "F">>
U_gif == <<"h", "t", "t", "p", ":", "/", "/", "x", ".", "c", "o", "/", "p", ".", "g", "i", "f">>
U_gifv == <<"h", "t", "t", "p", ":", "/", "/", "x", ".", "c", "o", "/", "p", ".", "g", "i", "f", "v">>
U_JpEg == <<"x", ".", "c", "o", "/", "p", ".", "J", "p", "E", "g">>
U_album == <<"h", "t", "t", "p", ":", "/", "/", "i", "m", "g", "u", "r", ".", "c", "o", "m", "/", "a", "/", "b">>
U_album_jpg == <<"h", "t", "t", "p", ":", "/", "/", "i", "m", "g", "u", "r", ".", "c", "o", "m", "/", "a", "/", "b", ".", "j", "p", "g">>
U_zip_jpg == <<"h", "t", "t", "p", ":", "/", "/", "x", ".", "c", "o", "/", "z", "i", "p", "/", "p", ".", "j", "p", "g">>
U_imgur_page == <<"h", "t", "t", "p", ":", "/", "/", "i", "m", "g", "u", "r", ".", "c", "o", "m", "/", "b">>
U_imgur_bare == <<"i", "m", "g", "u", "r", ".", "c", "o", "m", "/", "b">>
U_page == <<"h", "t", "t", "p", ":", "/", "/", "x", ".", "c", "o", "/", "b">>
U_pics_page == <<"h", "t", "t", "p", "s", ":", "/", "/", "p", "i", "c", "s", ".", "i", "o", "/", "b">>
L_og == <<"h", "t", "t", "p", ":", "/", "/", "x", ".", "c", "o", "/", "o", "g", ".", "j", "p", "g">>
L_src == <<"h", "t", "t", "p", ":", "/", "/", "x", ".", "c", "o", "/", "s", "r", "c", ".", "g", "i", "f">>
L_zip == <<"h", "t", "t", "p", ":", "/", "/", "x", ".", "c", "o", "/", "z", "i", "p", "/", "c", ".", "p", "n", "g">>

PostUrls == {U_jpg, U_GIF, U_gif, U_gifv, U_JpEg, U_album, U_album_jpg, U_zip_jpg,
             U_imgur_page, U_imgur_bare, U_page, U_pics_page}

\* praw submissions: url, stickied, is_self, over_18 (title is the post's index)
Posts == [url : PostUrls, stickied : BOOLEAN, is_self : BOOLEAN, over_18 : BOOLEAN]

NoPost == [url |-> Unset, stickied |-> FALSE, is_self |-> FALSE, over_18 |-> FALSE]

\* elements a fetched page can contain
Elements == {[name |-> "meta", attrs |-> [property |-> "og:image", content |-> L_og]],
             [name |-> "meta", attrs |-> [property |-> "og:image"]],
             [name |-> "meta", attrs |-> [property |-> "og:image", content |-> L_zip]],
             [name |-> "link", attrs |-> [rel |-> "image_src", href |-> L_src]]}

\* req.text of a fetched page, as the sequence of its elements in document order
Pages == UNION {[1..n -> Elements] : n \in 0..MaxElems}

\* only a response with ok has a body that get_direct_image_url parses
PagesOf(resp) == IF resp = "ok" THEN Pages ELSE {<<>>}

\* soup.find returns None when nothing matches
NoElement == [name |-> "None", attrs |-> <<>>]

\* selectors of a post that never reached the table lookup
NoRule == [name |-> "unset"]
NotSearched == [name |-> "Unset", attrs |-> <<>>]

\* what session.get can do: a response with ok, a response without ok
\* (4xx/5xx), or an exception of requests (requests.exceptions.RequestException,
\* which is an OSError but not the builtin ConnectionError)
Responses == {"ok", "not_ok", "error"}

\* what the body of a fetched resource can be
Bodies == {"zip", "not_zip"}

(* ---- the functions of imgbot.py ---- *)
\* the prefixing of get_request
Normalize(u) == IF StartsWith(u, HTTP) \/ StartsWith(u, HTTPS) THEN u ELSE HTTP \o u

\* get_request: the url requested and the exception raised, if any
get_request(u, resp) ==
    [url |-> Normalize(u),
     raise |-> IF resp = "error" THEN "RequestException"
               ELSE IF resp = "not_ok" THEN "ConnectionError"
               ELSE "none"]

\* selectors.pop('link') leaves the keyword arguments of soup.find
FindArgs(rule) == [k \in (DOMAIN rule) \ {"link"} |-> rule[k]]

\* BeautifulSoup's match of one element against find(name=..., attr=value ...)
Matches(el, kw) ==
    /\ "name" \in DOMAIN kw => el.name = kw["name"]
    /\ \A k \in (DOMAIN kw) \ {"name"} : k \in DOMAIN el.attrs /\ el.attrs[k] = kw[k]

\* soup.find(**selectors): the first matching element in document order
find(page, kw) ==
    IF \E k \in 1..Len(page) : Matches(page[k], kw)
    THEN page[CHOOSE k \in 1..Len(page) : Matches(page[k], kw) /\ \A j \in 1..(k - 1) : ~Matches(page[j], kw)]
    ELSE NoElement

\* Tag.get(link): the attribute's value, None when the attribute is absent
TagGet(img, link) == IF link \in DOMAIN img.attrs THEN img.attrs[link] ELSE None

\* the domain get_direct_image_url looks up in IMAGE_SELECTORS
LookupDomain(u) == netloc(u)

\* get_direct_image_url
get_direct_image_url(u, table, resp, page) ==
    LET req == get_request(u, resp)
        domain == LookupDomain(u)
        rule == DictGet(table, domain, table[K_default])
        img == find(page, FindArgs(rule))
    IN  IF req.raise # "none"
        THEN [raise |-> req.raise, value |-> Unset, requests |-> <<req.url>>,
              selectors |-> NoRule, img |-> NotSearched]
        ELSE IF "link" \notin DOMAIN rule
        THEN [raise |-> "KeyError", value |-> Unset, requests |-> <<req.url>>,
              selectors |-> rule, img |-> NotSearched]
        ELSE IF img.name = "None"
        THEN [raise |-> "AttributeError", value |-> Unset, requests |-> <<req.url>>,
              selectors |-> rule, img |-> img]
        ELSE [raise |-> "none", value |-> TagGet(img, rule["link"]), requests |-> <<req.url>>,
              selectors |-> rule, img |-> img]

\* the extension test without lower()
IsImageUrl_CaseSensitive(u) == \E e \in IMAGE_FORMATS : EndsWith(u, e)

\* url.lower().endswith(IMAGE_FORMATS)
IsImageUrl(u) == \E l \in {Lower(u)} : \E e \in IMAGE_FORMATS : EndsWith(l, e)

\* the album test as a suffix test
IsAlbumUrl_Suffix(u) == EndsWith(u, ALBUM_MARK)

\* '/a/' in url
IsAlbumUrl(u) == Contains(u, ALBUM_MARK)

\* get_post_image_url, with the branch taken
get_post_image_url(p, table, resp, page) ==
    IF IsImageUrl(p.url)
    THEN [raise |-> "none", value |-> p.url, requests |-> <<>>, selectors |-> NoRule,
          img |-> NotSearched, branch |-> "direct"]
    ELSE IF IsAlbumUrl(p.url)
    THEN [raise |-> "none", value |-> p.url \o ZIP, requests |-> <<>>, selectors |-> NoRule,
          img |-> NotSearched, branch |-> "album"]
    ELSE LET r == get_direct_image_url(p.url, table, resp, page)
         IN  [raise |-> r.raise, value |-> r.value, requests |-> r.requests,
              selectors |-> r.selectors, img |-> r.img, branch |-> "page"]

\* ignore_post: '/zip' in None raises TypeError
ignore_post(u, al, gi) ==
    IF u = None THEN [raise |-> "TypeError", ignore |-> FALSE, out |-> "none"]
    ELSE IF Contains(u, ZIP) /\ ~al THEN [raise |-> "none", ignore |-> TRUE, out |-> "Ignoring album"]
    ELSE IF (EndsWith(u, GIF) \/ EndsWith(u, GIFV)) /\ ~gi
    THEN [raise |-> "none", ignore |-> TRUE, out |-> "Ignoring gif"]
    ELSE [raise |-> "none", ignore |-> FALSE, out |-> "none"]

\* the first test with the "not" of "not nsfw" dropped
SkipPost_NsfwInverted(p, ns) == (p.stickied \/ p.is_self) \/ (p.over_18 /\ ns)

\* the first test of the loop body of route_posts
SkipPost(p, ns) == (p.stickied \/ p.is_self) \/ (p.over_18 /\ ~ns)

\* the test of route_posts that chooses extract_album over save_image
IsZipUrl(u) == Contains(u, ZIP)

(* ---- state ---- *)
VARIABLES
    IMAGE_SELECTORS,  \* the selector table after import
    albums, gifs, nsfw,  \* the flags of the run
    remaining,        \* posts the listing has still to yield
    idx,              \* posts route_posts has taken from the listing
    pc,               \* "loop", "resolve", "download", "done", "raised"
    post,             \* the post of the current iteration
    url,              \* route_posts' url: the resolver's return value
    branch,           \* branch of get_post_image_url: "direct", "album", "page"
    selectors,        \* the rule get_direct_image_url looked up
    img,              \* the element soup.find returned
    requests,         \* urls handed to session.get for this post, in order
    persist,          \* persist function called for this post
    written,          \* what the destination received for this post
    out,              \* lines printed for this post
    exc               \* exception that left route_posts

vars == <<IMAGE_SELECTORS, albums, gifs, nsfw, remaining, idx, pc, post, url, branch,
          selectors, img, requests, persist, written, out, exc>>

config == <<IMAGE_SELECTORS, albums, gifs, nsfw>>

\* an extracted archive's entries in the destination
ZipEntries == <<"entries">>

Init ==
    /\ \E file \in SelectorFiles : IMAGE_SELECTORS = LoadSelectors(file)
    /\ albums \in BOOLEAN /\ gifs \in BOOLEAN /\ nsfw \in BOOLEAN
    /\ remaining \in 0..MaxPosts
    /\ idx = 0
    /\ pc = "loop"
    /\ post = NoPost
    /\ url = Unset
    /\ branch = "unset"
    /\ selectors = NoRule
    /\ img = NotSearched
    /\ requests = <<>>
    /\ persist = "none"
    /\ written = Unset
    /\ out = <<>>
    /\ exc = "none"

\* for post in posts: the listing yields the next post; stickied, self and
\* disallowed over-18 posts are passed over
NextPost ==
    /\ pc = "loop"
    /\ remaining > 0
    /\ \E p \in Posts :
        /\ post' = p
        /\ pc' = IF SkipPost(p, nsfw) THEN "loop" ELSE "resolve"
    /\ remaining' = remaining - 1
    /\ idx' = idx + 1
    /\ url' = Unset
    /\ branch' = "unset"
    /\ selectors' = NoRule
    /\ img' = NotSearched
    /\ requests' = <<>>
    /\ persist' = "none"
    /\ written' = Unset
    /\ out' = <<>>
    /\ UNCHANGED <<config, exc>>

\* try: url = get_post_image_url(post), with the two except clauses
Resolve ==
    /\ pc = "resolve"
    /\ \E resp \in Responses : \E page \in PagesOf(resp) :
        \E r \in {get_post_image_url(post, IMAGE_SELECTORS, resp, page)} :
            /\ branch' = r.branch
            /\ requests' = r.requests
            /\ selectors' = r.selectors
            /\ img' = r.img
            /\ url' = r.value
            /\ out' = IF r.raise = "ConnectionError" THEN Append(out, "Encountered bad url")
                      ELSE IF r.raise = "AttributeError" THEN Append(out, "Could not extract link")
                      ELSE out
            /\ pc' = IF r.raise = "none" THEN "download"
                     ELSE IF r.raise \in {"ConnectionError", "AttributeError"} THEN "loop"
                     ELSE "raised"
            /\ exc' = IF r.raise \in {"none", "ConnectionError", "AttributeError"} THEN exc ELSE r.raise
    /\ UNCHANGED <<config, remaining, idx, post, persist, written>>

\* the rest of the loop body: ignore_post, get_request, extract_album or
\* save_image, and the success line
Download ==
    /\ pc = "download"
    /\ \E resp \in Responses, body \in Bodies :
        \E ig \in {ignore_post(url, albums, gifs)}, req \in {get_request(url, resp)} :
        LET fetched == ig.raise = "none" /\ ~ig.ignore
            got == fetched /\ req.raise = "none"
            bad_zip == got /\ IsZipUrl(url) /\ body = "not_zip"
        IN  /\ requests' = IF fetched THEN Append(requests, req.url) ELSE requests
            /\ persist' = IF ~got THEN persist
                          ELSE IF IsZipUrl(url) THEN "extract_album" ELSE "save_image"
            /\ written' = IF ~got \/ bad_zip THEN written
                          ELSE IF IsZipUrl(url) THEN ZipEntries ELSE basename(req.url)
            /\ out' = IF ig.raise = "none" /\ ig.ignore THEN Append(out, ig.out)
                      ELSE IF fetched /\ req.raise = "ConnectionError" THEN Append(out, "Encountered bad url")
                      ELSE IF got /\ ~bad_zip THEN Append(out, "Downloaded")
                      ELSE out
            /\ exc' = IF ig.raise # "none" THEN ig.raise
                      ELSE IF fetched /\ req.raise = "RequestException" THEN req.raise
                      ELSE IF bad_zip THEN "BadZipFile"
                      ELSE exc
            /\ pc' = IF exc' = "none" THEN "loop" ELSE "raised"
    /\ UNCHANGED <<config, remaining, idx, post, url, branch, selectors, img>>

\* the listing is exhausted and route_posts returns
Return ==
    /\ pc = "loop"
    /\ remaining = 0
    /\ pc' = "done"
    /\ UNCHANGED <<config, remaining, idx, post, url, branch, selectors, img, requests,
                   persist, written, out, exc>>

Next == NextPost \/ Resolve \/ Download \/ Return

Spec == Init /\ [][Next]_vars

TypeOK ==
    /\ pc \in {"loop", "resolve", "download", "done", "raised"}
    /\ remaining \in 0..MaxPosts /\ idx \in 0..MaxPosts
    /\ persist \in {"none", "save_image", "extract_album"}
    /\ (pc = "raised") = (exc # "none")

(* ---- properties ---- *)
\* the url of the current post ends in an image extension, in any letter case
PostUrlHasImageExtension ==
    \/ EndsWith(Lower(post.url), PNG) \/ EndsWith(Lower(post.url), GIF)
    \/ EndsWith(Lower(post.url), GIFV) \/ EndsWith(Lower(post.url), JPG)
    \/ EndsWith(Lower(post.url), JPEG)

\* the download step of the current post has asked for the resolved url
DownloadRequested == Len(requests) > (IF branch = "page" THEN 1 ELSE 0)

\* C1: a failure while handling one post (network error, extraction failure,
\* failed fetch, malformed zip archive) never ends the run: no exception of
\* these leaves route_posts, and the run ends only with the listing exhausted.
C1_FailureNeverEndsRun ==
    /\ exc \notin {"RequestException", "TypeError", "BadZipFile"}
    /\ pc = "done" => remaining = 0

\* C2: for a post url ending in .png, .gif, .gifv, .jpg or .jpeg in any letter
\* case, get_post_image_url returns the url unchanged through the direct-image
\* branch and requests nothing from the network.
C2_ImageUrlReturnedUnchanged ==
    [][(pc = "resolve" /\ PostUrlHasImageExtension)
        => (url' = post.url /\ branch' = "direct" /\ requests' = <<>> /\ pc' = "download")]_vars

C2_Witness ==
    pc = "download" /\ post.url = U_GIF /\ url = U_GIF /\ branch = "direct" /\ requests = <<>>

\* C3 as claimed: for every post url containing /a/, get_post_image_url
\* returns the url with "/zip" appended, as an album, without a network request.
C3_AlbumUrlGetsZip_Original ==
    [][(pc = "resolve" /\ Contains(post.url, ALBUM_MARK))
        => (url' = post.url \o ZIP /\ branch' = "album" /\ requests' = <<>> /\ pc' = "download")]_vars

\* C3 amended: for every post url containing /a/ that does not end in an image
\* extension (any letter case), get_post_image_url returns the url with "/zip"
\* appended, as an album, without a network request.
C3_AlbumUrlGetsZip ==
    [][(pc = "resolve" /\ Contains(post.url, ALBUM_MARK) /\ ~PostUrlHasImageExtension)
        => (url' = post.url \o ZIP /\ branch' = "album" /\ requests' = <<>> /\ pc' = "download")]_vars

C3_Witness ==
    pc = "download" /\ post.url = U_album /\ url = U_album \o ZIP /\ branch = "album" /\ requests = <<>>

\* the page was fetched and holds no matching element, or the matching element
\* lacks the rule's link attribute
ExtractionFails ==
    /\ branch = "page"
    /\ "link" \in DOMAIN selectors
    /\ img.name # "Unset"
    /\ (img.name = "None" \/ selectors["link"] \notin DOMAIN img.attrs)

\* C4: when the page is fetched but extraction finds no element or no link
\* attribute, the post ends with the line "Could not extract link", nothing
\* more is fetched or persisted for it, and the loop goes on.
C4_ExtractionFailureSkipsPost ==
    ExtractionFails
        => /\ pc \in {"loop", "done"}
           /\ out = <<"Could not extract link">>
           /\ Len(requests) = 1
           /\ persist = "none" /\ written = Unset

\* C5: once the resolver has returned and the download step has run, the post
\* was skipped exactly when (it was resolved as an album and albums are
\* disallowed) or (its resolved url ends in .gif or .gifv and gifs are
\* disallowed); otherwise its resolved url was requested.
C5_SkippedExactlyByPolicy ==
    (branch # "unset" /\ url # Unset /\ pc \in {"loop", "done", "raised"})
        => (((branch = "album" /\ ~albums) \/ ((EndsWith(url, GIF) \/ EndsWith(url, GIFV)) /\ ~gifs))
             <=> ~DownloadRequested)

\* C6: a post that is stickied, a self-post, or over-18 with nsfw false is
\* passed over whatever albums and gifs are: it is never resolved, nothing is
\* requested and nothing is written for it.
C6_FilteredPostUntouched ==
    (idx > 0 /\ (post.stickied \/ post.is_self \/ (post.over_18 /\ ~nsfw)))
        => /\ pc \in {"loop", "done"}
           /\ branch = "unset" /\ url = Unset
           /\ requests = <<>>
           /\ persist = "none" /\ written = Unset

C6_Witness ==
    /\ idx > 0 /\ pc = "loop"
    /\ post.over_18 /\ ~nsfw /\ ~post.stickied /\ ~post.is_self
    /\ albums /\ gifs
    /\ requests = <<>>

\* C7: a post that reaches the persist step is handed to extract_album exactly
\* when the resolver took the /a/ branch, and to save_image otherwise.
C7_ExtractedIffAlbumBranch ==
    persist # "none" => ((persist = "extract_album") <=> (branch = "album"))

\* C8: the rule used to extract is the table entry of the domain of the
\* normalized url (http:// prefixed when the scheme is missing), the default
\* rule when the table has none.
C8_RuleOfNormalizedDomain ==
    (branch = "page" /\ selectors.name # "unset")
        => selectors = DictGet(IMAGE_SELECTORS, netloc(Normalize(post.url)), IMAGE_SELECTORS[K_default])

\* C9: resolving with a rule that has no link field fails for that post only:
\* a line is printed, nothing is persisted and the loop goes on.
C9_RuleWithoutLinkSkipsPost ==
    (branch = "page" /\ selectors.name # "unset" /\ "link" \notin DOMAIN selectors)
        => /\ pc \in {"loop", "done"} /\ exc = "none"
           /\ Len(out) = 1
           /\ persist = "none" /\ written = Unset

\* C10: with gifs disallowed, a post the resolver took as a direct image
\* because of a .gif or .gifv extension (any letter case) is never fetched
\* nor written.
C10_NoGifWhenDisallowed ==
    (~gifs /\ branch = "direct"
      /\ (EndsWith(Lower(post.url), GIF) \/ EndsWith(Lower(post.url), GIFV)))
        => /\ requests = <<>>
           /\ persist = "none" /\ written = Unset

====
